---- MODULE Spec2Model ----
(***************************************************************************)
(* Project Pilot: the configuration store (src/src/store.ts, the second    *)
(* ConfigStore, lines 256-718), its file watcher and the webview message   *)
(* handlers that call it (src/src/outlineTreeProvider.ts, lines 63-223).   *)
(*                                                                         *)
(* A JavaScript object is a function from the keys it holds to their       *)
(* values: a key that is absent reads as undefined.  A text file is        *)
(* modelled by the value JSON.parse yields for it, or by NotJson when      *)
(* JSON.parse throws.  Every async method is cut at its awaits: each       *)
(* action is the code between two awaits, and the handlers in flight are   *)
(* records in inflight.                                                    *)
(***************************************************************************)
EXTENDS Integers, Sequences, FiniteSets, TLC

VARIABLES
  phase,        \* "constructed" before ConfigStore.init() has run, then "ready"
  state,        \* ConfigStore._state
  file,         \* content of projects.json
  backups,      \* the backup directory: the backup files, oldest first
  exported,     \* the file last written by the export command
  inflight,     \* handlers suspended at an await
  watchEvents,  \* 1 when a change event of projects.json is not delivered yet
  ops,          \* events delivered so far (requests and external edits)
  gen,          \* ids genId() has returned so far
  out           \* what the last step did: its result and its notifications

vars == <<phase, state, file, backups, exported, inflight, watchEvents, ops, gen, out>>

\* Events delivered in one run.
MaxOps == 2

----------------------------------------------------------------------------
(* JSON values and documents *)

\* A value of a field: an array, null, or a non-zero number.
Arr(s) == [k |-> "arr", v |-> s]
JNull == [k |-> "null", v |-> << >>]
JNum == [k |-> "num", v |-> << >>]

\* Array.isArray(j)
IsArray(j) == j.k = "arr"

\* if (j): null is falsy; an array (also an empty one) and a non-zero number are truthy
IsTruthy(j) == j.k # "null"

\* obj.key is present and truthy
HasTruthy(obj, key) == key \in DOMAIN obj /\ IsTruthy(obj[key])

\* What readFile + JSON.parse meet.
Missing == [k |-> "missing"]
NotJson == [k |-> "bad"]
NullDoc == [k |-> "null"]
ArrayDoc(s) == [k |-> "array", items |-> s]
ScalarDoc == [k |-> "scalar"]
ObjectDoc(f) == [k |-> "object", f |-> f]
NoDoc == [k |-> "none"]

\* { ...a, ...b }
Merge(a, b) == [key \in DOMAIN a \cup DOMAIN b |-> IF key \in DOMAIN b THEN b[key] ELSE a[key]]

\* An element of a projects array that is not an object (null, a number).
NonObj == [nonObject |-> TRUE]
IsObject(e) == "nonObject" \notin DOMAIN e

\* The id argument of a request whose payload has no id.
NoId == "#undefined"
\* A name or path that is present but is not a string.
NotAString == "#nonstring"

\* p.id, undefined when absent
EntryId(e) == IF "id" \in DOMAIN e THEN e.id ELSE NoId

\* !x for a string field: absent or empty
StrFalsy(e, key) == key \notin DOMAIN e \/ e[key] = ""

\* genId(): Math.random().toString(36).slice(2, 10), one of 36^8 strings.  The n-th
\* call returns a string no earlier call returned and no document holds: that two
\* calls collide is not modelled.
genId(n) == "g" \o ToString(n)

DefaultUISettings == [compactMode |-> FALSE, viewMode |-> "grid", selectedGroup |-> ""]

WelcomeDemo ==
  [id |-> "welcome-demo", name |-> "Welcome to Project Pilot", path |-> "demo",
   description |-> "sample", type |-> "local", color |-> "#3b82f6",
   tags |-> <<"demo", "welcome">>, group |-> "Getting Started", icon |-> ""]

DefaultState == [projects |-> Arr(<<WelcomeDemo>>), uiSettings |-> DefaultUISettings]

\* JSON.stringify(this._state, null, 2): the keys the state holds, undefined ones dropped
Stringify(s) == ObjectDoc(s)

\* this._state.projects as a sequence (push, filter, find work on arrays only)
Projects == state.projects.v

\* ConfigStore.uiSettings (the getter)
UISettingsOf(s) == IF "uiSettings" \in DOMAIN s THEN s.uiSettings ELSE DefaultUISettings

----------------------------------------------------------------------------
(* The projects collection *)

\* Array.prototype.findIndex / find with p => p.id === id: the first match, 0 when none
FindIndex(ps, id) ==
  IF \E i \in 1..Len(ps) : EntryId(ps[i]) = id
  THEN CHOOSE i \in 1..Len(ps) :
         EntryId(ps[i]) = id /\ \A j \in 1..(i - 1) : EntryId(ps[j]) # id
  ELSE 0

\* AddApply that puts the new entry first.
AddApplyPrepends(ps, p, g) ==
  <<IF "id" \in DOMAIN p THEN p ELSE Merge(p, [id |-> g])>> \o ps

\* addProject: p.id = p.id ?? genId(); projects.push(p)
AddApply(ps, p, g) ==
  Append(ps, IF "id" \in DOMAIN p THEN p ELSE Merge(p, [id |-> g]))

\* UpsertApply that moves a replaced entry to the end.
UpsertApplyMovesToEnd(ps, p, g) ==
  LET q == IF StrFalsy(p, "id") THEN Merge(p, [id |-> g]) ELSE p
  IN Append(SelectSeq(ps, LAMBDA e : EntryId(e) # q.id), q)

\* upsertProject: if (!p.id) p.id = genId(); replace at findIndex, else push
UpsertApply(ps, p, g) ==
  LET q == IF StrFalsy(p, "id") THEN Merge(p, [id |-> g]) ELSE p
      idx == FindIndex(ps, q.id)
  IN IF idx > 0 THEN [ps EXCEPT ![idx] = q] ELSE Append(ps, q)

\* deleteProject: projects.filter(p => p.id !== id)
DeleteApply(ps, id) == SelectSeq(ps, LAMBDA p : EntryId(p) # id)

\* recordProjectAccess on the entry found: clickCount = (clickCount || 0) + 1,
\* lastAccessed = new Date().toISOString()
AccessEntry(e) ==
  Merge(e, [clickCount |-> (IF "clickCount" \in DOMAIN e THEN e.clickCount ELSE 0) + 1,
            lastAccessed |-> "now"])

\* tags.includes('favorite')
HasFavoriteTag(tags) == \E i \in 1..Len(tags) : tags[i] = "favorite"

\* ToggleEntry that flips the flag and leaves the tags alone.
ToggleEntryFlagOnly(e) ==
  Merge(e, [isFavorite |-> ~("isFavorite" \in DOMAIN e /\ e.isFavorite)])

\* toggleFavorite on the entry found
ToggleEntry(e) ==
  LET fav == ~("isFavorite" \in DOMAIN e /\ e.isFavorite)
      e1 == Merge(e, [isFavorite |-> fav])
  IN IF fav
     THEN LET tags == IF "tags" \in DOMAIN e1 THEN e1.tags ELSE << >>
          IN Merge(e1, [tags |-> IF HasFavoriteTag(tags) THEN tags
                                 ELSE Append(tags, "favorite")])
     ELSE IF "tags" \in DOMAIN e1
          THEN Merge(e1, [tags |-> SelectSeq(e1.tags, LAMBDA t : t # "favorite")])
          ELSE e1

\* updateUISettings: defaults when unset, then { ...uiSettings, ...settings }
UISettingsApply(s, partial) ==
  Merge(s, [uiSettings |-> Merge(UISettingsOf(s), partial)])

----------------------------------------------------------------------------
(* Import: shape detection and per-entry validation *)

RecognizedTypes == {"local", "workspace", "ssh", "ssh-workspace"}

\* incoming.folders.map(folder => ({ name, path, type: 'workspace', color, tags }))
FolderEntry(folder) ==
  [name |-> IF StrFalsy(folder, "name") THEN "Imported Project" ELSE folder.name,
   path |-> IF ~StrFalsy(folder, "path") THEN folder.path
            ELSE IF ~StrFalsy(folder, "uri") THEN folder.uri ELSE "",
   type |-> "workspace", color |-> "#10b981", tags |-> <<"imported", "workspace">>]

\* The keys of an object document, in the order Object.values meets them.
KeyOrder ==
  <<"projects", "folders", "items", "archived", "uiSettings", "metadata", "version">>

\* Object.values(incoming).filter(Array.isArray)[0]: the key of the first array-valued field
FirstArrayKey(f) ==
  LET hits == {i \in 1..Len(KeyOrder) :
                 KeyOrder[i] \in DOMAIN f /\ KeyOrder[i] \notin {"uiSettings", "metadata"}
                 /\ IsArray(f[KeyOrder[i]])}
  IN IF hits = {} THEN "" ELSE KeyOrder[CHOOSE i \in hits : \A j \in hits : i <= j]

\* ImportShape that looks for folders before it looks for projects.
ImportShapeFoldersFirst(doc) ==
  IF doc.k \in {"bad", "missing"} THEN "unparseable"
  ELSE IF doc.k = "null" THEN "null"
  ELSE IF doc.k = "scalar" THEN "notObject"
  ELSE IF doc.k = "object" /\ HasTruthy(doc.f, "folders") /\ IsArray(doc.f.folders)
       THEN "folders"
  ELSE IF doc.k = "object" /\ HasTruthy(doc.f, "projects") /\ IsArray(doc.f.projects)
       THEN "projects"
  ELSE IF doc.k = "array" THEN "array"
  ELSE IF FirstArrayKey(doc.f) # "" THEN "scan"
  ELSE "none"

\* Which rule of the shape detection selects the candidate array.
ImportShape(doc) ==
  IF doc.k \in {"bad", "missing"} THEN "unparseable"
  ELSE IF doc.k = "null" THEN "null"
  ELSE IF doc.k = "scalar" THEN "notObject"
  ELSE IF doc.k = "object" /\ HasTruthy(doc.f, "projects") /\ IsArray(doc.f.projects)
       THEN "projects"
  ELSE IF doc.k = "array" THEN "array"
  ELSE IF doc.k = "object" /\ HasTruthy(doc.f, "folders") /\ IsArray(doc.f.folders)
       THEN "folders"
  ELSE IF FirstArrayKey(doc.f) # "" THEN "scan"
  ELSE "none"

\* The candidate projects array.
ImportCandidates(doc) ==
  CASE ImportShape(doc) = "projects" -> doc.f.projects.v
    [] ImportShape(doc) = "array" -> doc.items
    [] ImportShape(doc) = "folders" ->
         [i \in 1..Len(doc.f.folders.v) |-> FolderEntry(doc.f.folders.v[i])]
    [] ImportShape(doc) = "scan" -> doc.f[FirstArrayKey(doc.f)].v
    [] OTHER -> << >>

\* ElementError without the check of the type.
ElementErrorAnyType(e) ==
  IF ~IsObject(e) THEN "not an object"
  ELSE IF StrFalsy(e, "name") \/ e.name = NotAString THEN "name"
  ELSE IF StrFalsy(e, "path") \/ e.path = NotAString THEN "path"
  ELSE ""

\* The check an element fails, "" when it passes all four.
ElementError(e) ==
  IF ~IsObject(e) THEN "not an object"
  ELSE IF StrFalsy(e, "name") \/ e.name = NotAString THEN "name"
  ELSE IF StrFalsy(e, "path") \/ e.path = NotAString THEN "path"
  ELSE IF StrFalsy(e, "type") \/ e.type \notin RecognizedTypes THEN "type"
  ELSE ""

\* The loop throws at the first element that fails: its 0-based index, -1 when none does.
FirstInvalid(ps) ==
  IF \E i \in 1..Len(ps) : ElementError(ps[i]) # ""
  THEN (CHOOSE i \in 1..Len(ps) :
          ElementError(ps[i]) # "" /\ \A j \in 1..(i - 1) : ElementError(ps[j]) = "") - 1
  ELSE -1

\* Icon clean-up: a data:image/ URL whose base64 part decodes is kept, anything else is ''
CleanIcon(e) ==
  IF "icon" \in DOMAIN e /\ e.icon = "data:image/ok" THEN e.icon ELSE ""

\* "Ensure required fields exist" for one validated element; g is what genId() returns
NormalizeEntry(e, g) ==
  Merge(e, [id |-> IF StrFalsy(e, "id") THEN g ELSE e.id,
            color |-> IF StrFalsy(e, "color") THEN "#3b82f6" ELSE e.color,
            tags |-> IF "tags" \in DOMAIN e THEN e.tags ELSE << >>,
            description |-> IF StrFalsy(e, "description") THEN "" ELSE e.description,
            icon |-> CleanIcon(e)])

\* How many of the first n elements make the loop call genId()
IdsNeeded(ps, n) == Cardinality({j \in 1..n : StrFalsy(ps[j], "id")})

\* The validated array, when genId() has been called g times before
NormalizeAll(ps, g) ==
  [i \in 1..Len(ps) |-> NormalizeEntry(ps[i], genId(g + IdsNeeded(ps, i)))]

----------------------------------------------------------------------------
(* Export and backups *)

\* Backups kept by cleanupOldBackups.
RetainBackups == 5

\* exportToFile: { ...this._state, metadata: { version, exportDate, projectCount } }
ExportDoc(s) ==
  ObjectDoc(Merge(s, [metadata |->
    IF IsArray(s.projects)
    THEN [version |-> "1.0.0", exportDate |-> "now", projectCount |-> Len(s.projects.v)]
    ELSE [version |-> "1.0.0", exportDate |-> "now"]]))

\* PruneBackups that keeps the oldest files.
PruneBackupsKeepsOldest(bs) ==
  IF Len(bs) > RetainBackups THEN SubSeq(bs, 1, RetainBackups) ELSE bs

\* cleanupOldBackups: sorted by name descending, all but the first RetainBackups deleted
PruneBackups(bs) ==
  IF Len(bs) > RetainBackups THEN SubSeq(bs, Len(bs) - RetainBackups + 1, Len(bs)) ELSE bs

\* cleanupOldBackups when readDirectory or a delete rejects after d files are deleted:
\* the loop deletes the newest of the surplus files first, its catch block ends it
PruneStopped(bs, d) ==
  IF Len(bs) > RetainBackups
  THEN SubSeq(bs, 1, Len(bs) - RetainBackups - d)
         \o SubSeq(bs, Len(bs) - RetainBackups + 1, Len(bs))
  ELSE bs

\* What createBackup() leaves in the directory bs when the state is s.  The file name
\* is the time of the call, so the newest file is the last one.  createDirectory or
\* the write rejects (nothing written), the file is written and the surplus pruned,
\* or the file is written and the pruning stops early; no error leaves createBackup().
BackupOutcomes(bs, s) ==
  {[dir |-> bs, how |-> "backupFailed"],
   [dir |-> PruneBackups(Append(bs, ExportDoc(s))), how |-> "written"]}
  \cup {[dir |-> PruneStopped(Append(bs, ExportDoc(s)), d), how |-> "pruneFailed"] :
          d \in 0..(IF Len(bs) >= RetainBackups THEN Len(bs) - RetainBackups ELSE 0)}

----------------------------------------------------------------------------
(* Inputs *)

eA == [id |-> "a", name |-> "A", path |-> "/a", type |-> "local"]
eNew == [name |-> "N", path |-> "/n", type |-> "local"]
eDupTag == [id |-> "a", name |-> "A2", path |-> "/a", type |-> "ssh",
            tags |-> <<"favorite", "favorite">>]
eNoPath == [name |-> "x"]

\* Payloads of the webview's addOrUpdate message and of the add commands.
UpsertPayloads == {eNew, eDupTag}
AddPayloads == {eNew}

\* Ids the views send with delete, recordProjectAccess and toggleFavorite.
RequestIds == {"a"}

\* Payloads of updateUISettings.
UIPatches == {[compactMode |-> TRUE]}

\* Documents the user picks for import.
ImportDocs ==
  { ObjectDoc([projects |-> Arr(<<eA, eNew>>)]),
    ObjectDoc([projects |-> Arr(<<eA, eDupTag>>)]),
    ObjectDoc([projects |-> Arr(<<eA, eNoPath>>)]),
    NotJson }

\* What a hand edit leaves in projects.json.
EditDocs ==
  { NotJson,
    ObjectDoc([projects |-> JNull]),
    ObjectDoc([projects |-> JNum]),
    ObjectDoc([uiSettings |-> DefaultUISettings]),
    ObjectDoc([projects |-> Arr(<<eDupTag>>)]) }

\* projects.json when the extension starts.
InitFiles == {Missing, ObjectDoc([projects |-> Arr(<<eA>>)])}

----------------------------------------------------------------------------
(* The store *)

Handler(op, pc, data, arg) == [op |-> op, pc |-> pc, data |-> data, arg |-> arg]

\* No argument, no entry.
NoArg == [none |-> TRUE]

\* The id argument of a call, as a record.
IdArg(id) == [id |-> id]

\* What a step shows: the method, how it ended ("pending" while it awaits), how many
\* times it invoked onChangeCallback, and the index an import error names.  Called
\* notes the argument of the call and, for toggleFavorite, the entry as it found it.
Out(step, op, result, notify, idx) ==
  [op |-> op, result |-> result, notify |-> notify, idx |-> idx,
   arg |-> NoArg, was |-> NoArg, posted |-> NoArg]

Called(o, arg, was) == [o EXCEPT !.arg = arg, !.was = was]

\* Notified in which the callback refreshes the outline only.
NotifiedOutlineOnly(o, s) ==
  IF o.notify > 0 THEN [o EXCEPT !.posted = [outline |-> s.projects]] ELSE o

\* The change callback registered by activate: outlineProvider.refresh(), after which
\* getChildren() hands the outline store.state.projects, and managerProvider.postState(),
\* which posts a copy of store.state to the manager webview.  The step's observation
\* carries what the two views were handed.
Notified(o, s) ==
  IF o.notify > 0
  THEN [o EXCEPT !.posted = [outline |-> s.projects, manager |-> s]]
  ELSE o

Remove(seq, i) == SubSeq(seq, 1, i - 1) \o SubSeq(seq, i + 1, Len(seq))

\* A write of projects.json raises a change event when the file existed (writing a
\* file that is missing is a create event, and only onDidChange is subscribed).  The
\* host batches the changes of one file that are not delivered yet into one event.
EventsAfterWrite == IF file.k = "missing" THEN watchEvents ELSE 1

Init ==
  /\ phase = "constructed"
  /\ state = [projects |-> Arr(<< >>)]
  /\ file \in InitFiles
  /\ backups = << >>
  /\ exported = NoDoc
  /\ inflight = << >>
  /\ watchEvents = 0
  /\ ops = 0
  /\ gen = 0
  /\ out = Out("new", "constructor", "ok", 0, -1)

\* LoadedState that fills in projects only.
LoadedStateNoUISettings(doc) ==
  IF HasTruthy(doc.f, "projects") THEN doc.f ELSE Merge(doc.f, [projects |-> Arr(<< >>)])

\* init(): the state read from the file, with projects and uiSettings filled in when
\* falsy; the default state, saved, when the read or the parse throws
LoadedState(doc) ==
  LET s1 == IF HasTruthy(doc.f, "projects") THEN doc.f
            ELSE Merge(doc.f, [projects |-> Arr(<< >>)])
  IN IF "uiSettings" \in DOMAIN s1 THEN s1 ELSE Merge(s1, [uiSettings |-> DefaultUISettings])

StoreInit ==
  /\ phase = "constructed"
  /\ phase' = "ready"
  /\ IF file.k = "object"
     THEN /\ state' = LoadedState(file)
          /\ file' = file
     ELSE /\ state' = DefaultState
          /\ file' = Stringify(DefaultState)
  /\ out' = Out("done", "init", "ok", 0, -1)
  /\ UNCHANGED <<backups, exported, inflight, watchEvents, ops, gen>>

Ready == phase = "ready" /\ ops < MaxOps

\* Mutate with the callback invoked before save().
MutateNotifyFirst(op, arg, was, newState) ==
  /\ state' = newState
  /\ inflight' = Append(inflight, Handler(op, "write", Stringify(newState), << >>))
  /\ out' = Called(Out("apply", op, "pending", 1, -1), arg, was)
  /\ ops' = ops + 1
  /\ UNCHANGED <<phase, file, backups, exported, watchEvents>>

\* A method that mutates and then awaits save(): the change is in memory, the text to
\* write is built (JSON.stringify in save()), the handler waits for writeFile.
Mutate(op, arg, was, newState) ==
  /\ state' = newState
  /\ inflight' = Append(inflight, Handler(op, "write", Stringify(newState), << >>))
  /\ out' = Called(Out("apply", op, "pending", 0, -1), arg, was)
  /\ ops' = ops + 1
  /\ UNCHANGED <<phase, file, backups, exported, watchEvents>>

\* A method that throws or returns before any await.
Finish(op, arg, result) ==
  /\ out' = Called(Out("done", op, result, 0, -1), arg, NoArg)
  /\ ops' = ops + 1
  /\ UNCHANGED <<phase, state, file, backups, exported, inflight, watchEvents, gen>>

\* genId() is called when the payload's id is undefined (addProject: ??) or falsy
\* (upsertProject: !p.id)
AddProject(p) ==
  /\ Ready
  /\ IF IsArray(state.projects)
     THEN /\ Mutate("addProject", p, NoArg,
                    [state EXCEPT !.projects = Arr(AddApply(Projects, p, genId(gen + 1)))])
          /\ gen' = IF "id" \in DOMAIN p THEN gen ELSE gen + 1
     ELSE Finish("addProject", p, "typeError")

UpsertProject(p) ==
  /\ Ready
  /\ IF IsArray(state.projects)
     THEN /\ Mutate("upsertProject", p, NoArg,
                    [state EXCEPT !.projects = Arr(UpsertApply(Projects, p, genId(gen + 1)))])
          /\ gen' = IF StrFalsy(p, "id") THEN gen + 1 ELSE gen
     ELSE Finish("upsertProject", p, "typeError")

DeleteProject(id) ==
  /\ Ready
  /\ IF IsArray(state.projects)
     THEN /\ Mutate("deleteProject", IdArg(id), NoArg,
                    [state EXCEPT !.projects = Arr(DeleteApply(Projects, id))])
          /\ gen' = gen
     ELSE Finish("deleteProject", IdArg(id), "typeError")

RecordProjectAccess(id) ==
  /\ Ready
  /\ IF ~IsArray(state.projects) THEN Finish("recordProjectAccess", IdArg(id), "typeError")
     ELSE IF FindIndex(Projects, id) = 0 THEN Finish("recordProjectAccess", IdArg(id), "ok")
     ELSE LET i == FindIndex(Projects, id)
          IN /\ Mutate("recordProjectAccess", IdArg(id), NoArg,
                       [state EXCEPT !.projects = Arr([Projects EXCEPT ![i] = AccessEntry(@)])])
             /\ gen' = gen

ToggleFavorite(id) ==
  /\ Ready
  /\ IF ~IsArray(state.projects) THEN Finish("toggleFavorite", IdArg(id), "typeError")
     ELSE IF FindIndex(Projects, id) = 0 THEN Finish("toggleFavorite", IdArg(id), "ok")
     ELSE LET i == FindIndex(Projects, id)
          IN /\ Mutate("toggleFavorite", IdArg(id), Projects[i],
                       [state EXCEPT !.projects = Arr([Projects EXCEPT ![i] = ToggleEntry(@)])])
             /\ gen' = gen

UpdateUISettings(partial) ==
  /\ Ready
  /\ Mutate("updateUISettings", partial, NoArg, UISettingsApply(state, partial))
  /\ gen' = gen

\* writeFile resolves: the text is in the file, then the method invokes the callback
\* (activate registers it right after init(), so it is always set) and returns.
WriteDone(i) ==
  /\ inflight[i].pc = "write"
  /\ file' = inflight[i].data
  /\ watchEvents' = EventsAfterWrite
  /\ out' = Notified(Out("done", inflight[i].op, "ok", 1, -1), state)
  /\ inflight' = Remove(inflight, i)
  /\ UNCHANGED <<phase, state, backups, exported, ops, gen>>

\* writeFile rejects: save() and the method reject, nothing after the await runs.
WriteFail(i) ==
  /\ inflight[i].pc = "write"
  /\ out' = Out("done", inflight[i].op, "writeError", 0, -1)
  /\ inflight' = Remove(inflight, i)
  /\ UNCHANGED <<phase, state, file, backups, exported, watchEvents, ops, gen>>

\* ReadOutcome that replaces the state whenever the text parses to an object.
ReadOutcomeAnyObject(doc) ==
  IF doc.k = "missing" THEN "readError"
  ELSE IF doc.k = "bad" THEN "parseError"
  ELSE IF doc.k = "null" THEN "typeError"
  ELSE IF doc.k = "object" THEN "install"
  ELSE "ignore"

\* What the code shared by reload() and the watcher does with what it read:
\* readFile rejects, JSON.parse throws, null.projects throws, the state is replaced
\* (newState.projects is truthy), or nothing happens.
ReadOutcome(doc) ==
  IF doc.k = "missing" THEN "readError"
  ELSE IF doc.k = "bad" THEN "parseError"
  ELSE IF doc.k = "null" THEN "typeError"
  ELSE IF doc.k = "object" /\ HasTruthy(doc.f, "projects") THEN "install"
  ELSE "ignore"

\* reload() up to await readFile
ReloadStart ==
  /\ Ready
  /\ inflight' = Append(inflight, Handler("reload", "read", file, << >>))
  /\ out' = Out("start", "reload", "pending", 0, -1)
  /\ ops' = ops + 1
  /\ UNCHANGED <<phase, state, file, backups, exported, watchEvents, gen>>

\* reload() after the read: the catch block rethrows
ReloadDone(i) ==
  /\ inflight[i].op = "reload" /\ inflight[i].pc = "read"
  /\ LET o == ReadOutcome(inflight[i].data)
     IN /\ state' = IF o = "install" THEN inflight[i].data.f ELSE state
        /\ out' = Notified(Out("done", "reload",
                               IF o \in {"install", "ignore"} THEN "ok" ELSE o,
                               IF o = "install" THEN 1 ELSE 0, -1), state')
  /\ inflight' = Remove(inflight, i)
  /\ UNCHANGED <<phase, file, backups, exported, watchEvents, ops, gen>>

\* The watcher's onDidChange handler up to await readFile
WatchStart ==
  /\ phase = "ready"
  /\ watchEvents > 0
  /\ watchEvents' = watchEvents - 1
  /\ inflight' = Append(inflight, Handler("watch", "read", file, << >>))
  /\ out' = Out("start", "watch", "pending", 0, -1)
  /\ UNCHANGED <<phase, state, file, backups, exported, ops, gen>>

\* The watcher's handler after the read: the catch block warns and returns
WatchDone(i) ==
  /\ inflight[i].op = "watch" /\ inflight[i].pc = "read"
  /\ LET o == ReadOutcome(inflight[i].data)
     IN /\ state' = IF o = "install" THEN inflight[i].data.f ELSE state
        /\ out' = Notified(Out("done", "watch",
                               IF o \in {"install", "ignore"} THEN "ok" ELSE "warned",
                               IF o = "install" THEN 1 ELSE 0, -1), state')
  /\ inflight' = Remove(inflight, i)
  /\ UNCHANGED <<phase, file, backups, exported, watchEvents, ops, gen>>

\* The message of the error importFromFile throws for a document, "" when it accepts it.
ImportError(doc) ==
  CASE ImportShape(doc) = "unparseable" -> "Invalid JSON format"
    [] ImportShape(doc) = "null" -> "TypeError"
    [] ImportShape(doc) = "notObject" -> "not a valid JSON object"
    [] ImportShape(doc) = "none" -> "no recognizable project data found"
    [] OTHER -> ElementError(
                  IF FirstInvalid(ImportCandidates(doc)) >= 0
                  THEN ImportCandidates(doc)[FirstInvalid(ImportCandidates(doc)) + 1]
                  ELSE eA)

\* Files the user can pick: the pool and the last export.
ImportSources == ImportDocs \cup (IF exported = NoDoc THEN {} ELSE {exported})

\* ImportStart that, on rejecting a document, has already put the elements that
\* precede the failing one into the state.
ImportStartCommitsPrefix(doc) ==
  /\ Ready
  /\ ops' = ops + 1
  /\ IF ImportError(doc) # ""
     THEN /\ out' = Called(Out("done", "importFromFile", ImportError(doc), 0,
                               FirstInvalid(ImportCandidates(doc))), doc, NoArg)
          /\ inflight' = inflight
          /\ gen' = gen + (IF FirstInvalid(ImportCandidates(doc)) >= 0
                           THEN IdsNeeded(ImportCandidates(doc),
                                          FirstInvalid(ImportCandidates(doc)))
                           ELSE 0)
          /\ state' = IF FirstInvalid(ImportCandidates(doc)) > 0
                      THEN [projects |-> Arr(SubSeq(ImportCandidates(doc), 1,
                                                    FirstInvalid(ImportCandidates(doc))))]
                      ELSE state
     ELSE /\ inflight' = Append(inflight,
                 Handler("importFromFile", "backup", doc,
                         NormalizeAll(ImportCandidates(doc), gen)))
          /\ out' = Called(Out("start", "importFromFile", "pending", 0, -1), doc, NoArg)
          /\ gen' = gen + IdsNeeded(ImportCandidates(doc), Len(ImportCandidates(doc)))
          /\ state' = state
  /\ UNCHANGED <<phase, file, backups, exported, watchEvents>>

\* importFromFile up to await createBackup(): read, parse, shape detection, validation.
\* Nothing of it reads or writes the store, so it is one step.
ImportStart(doc) ==
  /\ Ready
  /\ ops' = ops + 1
  /\ IF ImportError(doc) # ""
     THEN /\ out' = Called(Out("done", "importFromFile", ImportError(doc), 0,
                               FirstInvalid(ImportCandidates(doc))), doc, NoArg)
          /\ inflight' = inflight
          /\ gen' = gen + (IF FirstInvalid(ImportCandidates(doc)) >= 0
                           THEN IdsNeeded(ImportCandidates(doc),
                                          FirstInvalid(ImportCandidates(doc)))
                           ELSE 0)
     ELSE /\ inflight' = Append(inflight,
                 Handler("importFromFile", "backup", doc,
                         NormalizeAll(ImportCandidates(doc), gen)))
          /\ out' = Called(Out("start", "importFromFile", "pending", 0, -1), doc, NoArg)
          /\ gen' = gen + IdsNeeded(ImportCandidates(doc), Len(ImportCandidates(doc)))
  /\ UNCHANGED <<phase, state, file, backups, exported, watchEvents>>

\* ImportBackup in which a backup that could not be written ends the import.
ImportBackupThrows(i) ==
  /\ inflight[i].op = "importFromFile" /\ inflight[i].pc = "backup"
  /\ \E o \in BackupOutcomes(backups, state) :
       /\ backups' = o.dir
       /\ IF o.how = "backupFailed"
          THEN /\ out' = Out("done", "importFromFile", "backupError", 0, -1)
               /\ inflight' = Remove(inflight, i)
          ELSE /\ out' = Out("backup", "importFromFile",
                             IF o.how = "written" THEN "pending" ELSE o.how, 0, -1)
               /\ inflight' = [inflight EXCEPT ![i].pc = "replace"]
  /\ UNCHANGED <<phase, state, file, exported, watchEvents, ops, gen>>

\* createBackup() inside importFromFile: the export of the current state is written to
\* the backup directory and the old backups pruned, or a step of it throws and the
\* catch block swallows it
ImportBackup(i) ==
  /\ inflight[i].op = "importFromFile" /\ inflight[i].pc = "backup"
  /\ \E o \in BackupOutcomes(backups, state) :
       /\ backups' = o.dir
       /\ out' = Out("backup", "importFromFile",
                     IF o.how = "written" THEN "pending" ELSE o.how, 0, -1)
  /\ inflight' = [inflight EXCEPT ![i].pc = "replace"]
  /\ UNCHANGED <<phase, state, file, exported, watchEvents, ops, gen>>

\* ImportedState that appends the imported entries to the current ones.
ImportedStateMerged(projects) ==
  [projects |-> Arr((IF IsArray(state.projects) THEN Projects ELSE << >>) \o projects)]

\* this._state = { projects }
ImportedState(projects) == [projects |-> Arr(projects)]

\* importFromFile after createBackup(): the state is replaced, save() awaits writeFile
ImportReplace(i) ==
  /\ inflight[i].op = "importFromFile" /\ inflight[i].pc = "replace"
  /\ state' = ImportedState(inflight[i].arg)
  /\ inflight' = [inflight EXCEPT ![i].pc = "write", ![i].data = Stringify(state')]
  /\ out' = Out("apply", "importFromFile", "pending", 0, -1)
  /\ UNCHANGED <<phase, file, backups, exported, watchEvents, ops, gen>>

\* The export command: exportToFile(dest)
ExportToFile ==
  /\ Ready
  /\ exported' = ExportDoc(state)
  /\ out' = Out("done", "exportToFile", "ok", 0, -1)
  /\ ops' = ops + 1
  /\ UNCHANGED <<phase, state, file, backups, inflight, watchEvents, gen>>

\* The command projectPilot.createBackup: createBackup() resolves whatever happened
\* inside it, the command reports success
CreateBackup ==
  /\ Ready
  /\ \E o \in BackupOutcomes(backups, state) :
       /\ backups' = o.dir
       /\ out' = Out("done", "createBackup", IF o.how = "written" THEN "ok" ELSE o.how, 0, -1)
  /\ ops' = ops + 1
  /\ UNCHANGED <<phase, state, file, exported, inflight, watchEvents, gen>>

\* A hand edit of projects.json
ExternalEdit(doc) ==
  /\ Ready
  /\ file' = doc
  /\ watchEvents' = EventsAfterWrite
  /\ out' = Out("done", "externalEdit", "ok", 0, -1)
  /\ ops' = ops + 1
  /\ UNCHANGED <<phase, state, backups, exported, inflight, gen>>

\* projects.json is deleted: the watcher is created with ignoreDeleteEvents
ExternalDelete ==
  /\ Ready
  /\ file.k # "missing"
  /\ file' = Missing
  /\ out' = Out("done", "externalDelete", "ok", 0, -1)
  /\ ops' = ops + 1
  /\ UNCHANGED <<phase, state, backups, exported, inflight, watchEvents, gen>>

Next ==
  \/ StoreInit
  \/ \E p \in AddPayloads : AddProject(p)
  \/ \E p \in UpsertPayloads : UpsertProject(p)
  \/ \E id \in RequestIds : DeleteProject(id)
  \/ \E id \in RequestIds : RecordProjectAccess(id)
  \/ \E id \in RequestIds : ToggleFavorite(id)
  \/ \E partial \in UIPatches : UpdateUISettings(partial)
  \/ \E i \in 1..Len(inflight) : WriteDone(i)
  \/ \E i \in 1..Len(inflight) : WriteFail(i)
  \/ ReloadStart
  \/ \E i \in 1..Len(inflight) : ReloadDone(i)
  \/ WatchStart
  \/ \E i \in 1..Len(inflight) : WatchDone(i)
  \/ \E doc \in ImportSources : ImportStart(doc)
  \/ \E i \in 1..Len(inflight) : ImportBackup(i)
  \/ \E i \in 1..Len(inflight) : ImportReplace(i)
  \/ ExportToFile
  \/ \E doc \in EditDocs : ExternalEdit(doc)
  \/ ExternalDelete

Spec == Init /\ [][Next]_vars

----------------------------------------------------------------------------
(* The store on its own: any backing file and backup directory an earlier session can
   have left, and the methods of ConfigStore called with any argument their
   signatures admit. *)

\* An entry that carries the tag favorite and no isFavorite flag.
eFavTag == [id |-> "a", name |-> "A", path |-> "/a", type |-> "local",
            tags |-> <<"favorite">>]

\* projects.json as an earlier session or a hand edit left it.
StoredFiles ==
  InitFiles \cup
  { NotJson, NullDoc,
    ObjectDoc([projects |-> Arr(<<eFavTag>>)]),
    ObjectDoc([uiSettings |-> [compactMode |-> TRUE, viewMode |-> "list",
                               selectedGroup |-> ""]]) }

\* A backup file written by an earlier session.
OldBackup(n) == ExportDoc([projects |-> Arr(<<[eA EXCEPT !.name = ToString(n)]>>)])

\* The backup directory as earlier sessions left it: empty, or full.
StoredBackups == { << >>, [n \in 1..RetainBackups |-> OldBackup(n)] }

\* An element whose type is none of the four.
eBadType == [id |-> "b", name |-> "B", path |-> "/b", type |-> "docker"]

\* Documents picked for import.
StoreImportDocs ==
  { ObjectDoc([projects |-> Arr(<<eA, eNew>>)]),
    ObjectDoc([projects |-> Arr(<<eA, eBadType>>)]) }

\* addProject(p: ProjectItem): id is optional.
StoreAddPayloads == AddPayloads \cup {eA}

StoreInitial ==
  /\ phase = "constructed"
  /\ state = [projects |-> Arr(<< >>)]
  /\ file \in StoredFiles
  /\ backups \in StoredBackups
  /\ exported = NoDoc
  /\ inflight = << >>
  /\ watchEvents = 0
  /\ ops = 0
  /\ gen = 0
  /\ out = Out("new", "constructor", "ok", 0, -1)

StoreNext ==
  \/ StoreInit
  \/ \E p \in StoreAddPayloads : AddProject(p)
  \/ \E p \in UpsertPayloads : UpsertProject(p)
  \/ \E id \in RequestIds : DeleteProject(id)
  \/ \E id \in RequestIds : RecordProjectAccess(id)
  \/ \E id \in RequestIds : ToggleFavorite(id)
  \/ \E i \in 1..Len(inflight) : WriteDone(i)
  \/ \E i \in 1..Len(inflight) : WriteFail(i)
  \/ CreateBackup
  \/ \E doc \in StoreImportDocs : ImportStart(doc)
  \/ \E i \in 1..Len(inflight) : ImportBackup(i)
  \/ \E i \in 1..Len(inflight) : ImportReplace(i)

StoreSpec == StoreInitial /\ [][StoreNext]_vars

----------------------------------------------------------------------------
(* Properties *)

MutatingOps ==
  {"addProject", "upsertProject", "deleteProject", "recordProjectAccess",
   "toggleFavorite", "updateUISettings", "importFromFile"}

\* Handler i reaches await writeFile in this step.
StartsWrite(i) ==
  /\ Len(inflight') >= Len(inflight)
  /\ i \in 1..Len(inflight')
  /\ inflight'[i].pc = "write"
  /\ (i > Len(inflight) \/ inflight[i].pc # "write")

\* Handler i ends in this step.
Ends(i) == i \in 1..Len(inflight) /\ inflight' = Remove(inflight, i)

\* C1: in every mutating method the change is in memory when the write is issued (the
\* text handed to writeFile is the changed state), the callback is not invoked while
\* the write is pending, and a mutating method invokes the callback only in the step
\* in which its own write has put its text into the file, once.
C1_PersistThenNotify ==
  [][ /\ \A i \in 1..Len(inflight') :
           StartsWrite(i) =>
             /\ inflight'[i].op \in MutatingOps
             /\ inflight'[i].data = Stringify(state')
             /\ file' = file
             /\ out'.notify = 0
      /\ (out'.op \in MutatingOps /\ out'.notify > 0) =>
           \E i \in 1..Len(inflight) :
             /\ Ends(i)
             /\ inflight[i].op = out'.op
             /\ inflight[i].pc = "write"
             /\ file' = inflight[i].data
             /\ out'.notify = 1 ]_vars

\* A mutating method has returned after its write and its one notification.
C1_Witness ==
  /\ out.op \in MutatingOps /\ out.result = "ok" /\ out.notify = 1
  /\ file = Stringify(state)

\* The ids of the entries of a projects array, entries without id left out.
IdsUnique(ps) ==
  \A i, j \in 1..Len(ps) :
    (i # j /\ "id" \in DOMAIN ps[i] /\ "id" \in DOMAIN ps[j]) => ps[i].id # ps[j].id

\* C2: in every reachable state no two entries of state.projects have the same id.
C2_UniqueIds == IsArray(state.projects) => IdsUnique(Projects)

\* C3: handlers run one after the other, so at no point are two writes of
\* projects.json in flight.
C3_OneWriteInFlight ==
  Cardinality({i \in 1..Len(inflight) : inflight[i].pc = "write"}) <= 1

\* The method of the last step threw (its promise rejected).
Rejected(o) == o.result \notin {"ok", "pending", "warned", "backupFailed", "pruneFailed"}

\* The watcher's handler i ends in this step.
WatchEnds(i) == Ends(i) /\ inflight[i].op = "watch" /\ out'.op = "watch"

\* The text is JSON for an object that has a projects key.
HasProjectsField(doc) == doc.k = "object" /\ "projects" \in DOMAIN doc.f

\* C4 as stated: on a change event, a file that parses and contains a projects field
\* replaces the state and the callback is invoked exactly once; a file that does not
\* parse leaves the state alone, with no callback and no error out of the handler.
C4_WatcherReconciles ==
  [][ \A i \in 1..Len(inflight) : WatchEnds(i) =>
        /\ HasProjectsField(inflight[i].data) =>
             (state' = inflight[i].data.f /\ out'.notify = 1)
        /\ inflight[i].data.k = "bad" =>
             (state' = state /\ out'.notify = 0 /\ ~Rejected(out')) ]_vars

\* C4 amended: the state is replaced, and the callback invoked exactly once, when the
\* file parses and its projects field is truthy; a file whose projects field is null
\* is ignored (no change, no callback); a file that does not parse leaves the state
\* alone, with no callback and no error out of the handler.
C4_WatcherReconcilesTruthy ==
  [][ \A i \in 1..Len(inflight) : WatchEnds(i) =>
        /\ (HasProjectsField(inflight[i].data) /\ IsTruthy(inflight[i].data.f.projects)) =>
             (state' = inflight[i].data.f /\ out'.notify = 1 /\ ~Rejected(out'))
        /\ (HasProjectsField(inflight[i].data) /\ ~IsTruthy(inflight[i].data.f.projects)) =>
             (state' = state /\ out'.notify = 0 /\ ~Rejected(out'))
        /\ inflight[i].data.k = "bad" =>
             (state' = state /\ out'.notify = 0 /\ ~Rejected(out')) ]_vars

\* The watcher has replaced the state by a hand-edited file and notified once.
C4_Witness ==
  /\ out.op = "watch" /\ out.result = "ok" /\ out.notify = 1
  /\ file \in EditDocs /\ file.k = "object" /\ state = file.f

\* importFromFile threw in this step, before createBackup().
ImportRejected ==
  /\ out'.op = "importFromFile"
  /\ out'.result \notin {"ok", "pending", "backupFailed", "pruneFailed", "writeError"}

\* C5: when importFromFile rejects a document, the state, the backing file and the
\* backups are as before, no handler is left behind, the callback is not invoked, and
\* for an invalid element the error names the index of the first element that fails.
C5_RejectedImportChangesNothing ==
  [][ ImportRejected =>
        /\ state' = state /\ file' = file /\ backups' = backups
        /\ inflight' = inflight /\ exported' = exported
        /\ out'.notify = 0
        /\ \E doc \in ImportSources :
             /\ out'.result = ImportError(doc)
             /\ LET ps == ImportCandidates(doc)
                IN IF \E j \in 1..Len(ps) : ElementError(ps[j]) # ""
                   THEN /\ out'.idx \in 0..(Len(ps) - 1)
                        /\ ElementError(ps[out'.idx + 1]) = out'.result
                        /\ \A j \in 1..out'.idx : ElementError(ps[j]) = ""
                   ELSE out'.idx = -1 ]_vars

\* An import was rejected for its second element, after a valid first one.
C5_Witness ==
  /\ out.op = "importFromFile" /\ out.result = "path" /\ out.idx = 1 /\ out.notify = 0
  /\ inflight = << >>

\* The import handler i moves from one await to the next in this step.
ImportStep(i, from, to) ==
  /\ i \in 1..Len(inflight) /\ Len(inflight') = Len(inflight)
  /\ inflight[i].op = "importFromFile"
  /\ inflight[i].pc = from /\ inflight'[i].pc = to

\* C6 as stated: when a successful import replaces the state, a backup holding the
\* state as it was before the import has been written.
C6_BackupHoldsReplacedState ==
  [][ \A i \in 1..Len(inflight) : ImportStep(i, "replace", "write") =>
        (backups # << >> /\ backups[Len(backups)] = ExportDoc(state)) ]_vars

\* C6 amended: an import runs createBackup() first, which either fails (swallowed) or
\* writes an export of the state as it is at that moment; only then it replaces the
\* state by exactly the imported entries, and only then it writes the backing file.
C6_BackupThenReplace ==
  [][ \A i \in 1..Len(inflight) :
        /\ (/\ inflight[i].op = "importFromFile"
            /\ Len(inflight') = Len(inflight)
            /\ inflight'[i].pc # inflight[i].pc) =>
             <<inflight[i].pc, inflight'[i].pc>> \in
               {<<"backup", "replace">>, <<"replace", "write">>}
        /\ ImportStep(i, "backup", "replace") =>
             /\ state' = state /\ file' = file
             /\ \/ backups' = backups
                \/ /\ backups' # << >>
                   /\ backups'[Len(backups')] = ExportDoc(state)
        /\ ImportStep(i, "replace", "write") =>
             /\ DOMAIN state' = {"projects"}
             /\ state'.projects = Arr(inflight[i].arg)
             /\ Len(inflight[i].arg) = Len(ImportCandidates(inflight[i].data))
             /\ \A k \in 1..Len(inflight[i].arg) :
                  inflight[i].arg[k].name = ImportCandidates(inflight[i].data)[k].name
             /\ file' = file /\ backups' = backups
             /\ inflight'[i].data = Stringify(state')
        /\ (Ends(i) /\ inflight[i].op = "importFromFile") =>
             /\ inflight[i].pc = "write"
             /\ out'.result = "ok" => file' = inflight[i].data ]_vars

\* An import has written its backup and replaced the state, and awaits its write.
C6_Witness ==
  \E i \in 1..Len(inflight) :
    /\ inflight[i].op = "importFromFile" /\ inflight[i].pc = "write"
    /\ backups # << >>
    /\ state = ImportedState(inflight[i].arg)
    /\ file # Stringify(state)

\* C7: every project in the catalog before a successful import is in it afterwards.
C7_ImportKeepsExisting ==
  [][ \A i \in 1..Len(inflight) :
        (ImportStep(i, "replace", "write") /\ IsArray(state.projects)) =>
          \A k \in 1..Len(Projects) :
            \E m \in 1..Len(state'.projects.v) :
              EntryId(state'.projects.v[m]) = EntryId(Projects[k]) ]_vars

\* C8: importing the export of the current state leaves the state as it was.
C8_ExportImportRoundTrip ==
  [][ \A i \in 1..Len(inflight) :
        (ImportStep(i, "replace", "write") /\ inflight[i].data = ExportDoc(state)) =>
          state' = state ]_vars

\* C9: reload() replaces the state and notifies when the file parses and contains a
\* projects field; in every other case it throws and leaves the state alone.
C9_ReloadReplacesOrRejects ==
  [][ \A i \in 1..Len(inflight) :
        (Ends(i) /\ inflight[i].op = "reload" /\ out'.op = "reload") =>
          IF HasProjectsField(inflight[i].data)
          THEN state' = inflight[i].data.f /\ out'.notify = 1 /\ ~Rejected(out')
          ELSE state' = state /\ Rejected(out') ]_vars

\* Occurrences of the tag favorite in an entry's tags.
FavoriteCount(e) ==
  IF "tags" \in DOMAIN e
  THEN Cardinality({k \in 1..Len(e.tags) : e.tags[k] = "favorite"})
  ELSE 0

\* isFavorite is true.
FlagOn(e) == "isFavorite" \in DOMAIN e /\ e.isFavorite

\* toggleFavorite has found its entry and changed it in this step.
ToggleStep == out'.op = "toggleFavorite" /\ out'.result = "pending"

TagSet(e) == IF "tags" \in DOMAIN e THEN {e.tags[k] : k \in 1..Len(e.tags)} ELSE {}

\* toggleFavorite changes an entry in this step, and the step before was a
\* toggleFavorite that changed the entry of the same id.
SecondToggle ==
  /\ ToggleStep
  /\ out.op = "toggleFavorite" /\ out.result = "pending"
  /\ out'.arg = out.arg

\* C11: two toggleFavorite calls in a row on an id leave the entry with the
\* truthiness of isFavorite and the set of tags it had before the first call.
C11_ToggleTwiceRestores ==
  [][ SecondToggle =>
        LET e2 == state'.projects.v[FindIndex(state'.projects.v, out'.arg.id)]
        IN /\ FlagOn(e2) <=> FlagOn(out.was)
           /\ TagSet(e2) = TagSet(out.was) ]_vars

\* upsertProject stores its argument in this step.
UpsertStep == out'.op = "upsertProject" /\ out'.result = "pending"

\* C12: upsertProject called a second time with an entry of the same field values
\* leaves the state as the first call left it.
C12_UpsertIdempotent ==
  [][ (/\ UpsertStep
       /\ out.op = "upsertProject" /\ out.result = "pending"
       /\ out'.arg = out.arg) => state' = state ]_vars

\* Entry q is entry p with an id set.
IsWithId(q, p) ==
  /\ DOMAIN q = DOMAIN p \cup {"id"}
  /\ \A key \in DOMAIN p \ {"id"} : q[key] = p[key]
  /\ q.id # ""

\* C13: upsertProject of an entry whose id is present replaces the entry of that id
\* where it is and leaves the length and every other entry alone; of an entry whose
\* id is not present, or that has none, it appends one entry and changes nothing else.
C13_UpsertReplacesOrAppends ==
  [][ UpsertStep =>
        LET p == out'.arg
            ps == Projects
            qs == state'.projects.v
        IN /\ DOMAIN state' = DOMAIN state
           /\ \A key \in DOMAIN state \ {"projects"} : state'[key] = state[key]
           /\ IF ~StrFalsy(p, "id") /\ FindIndex(ps, p.id) > 0
              THEN /\ Len(qs) = Len(ps)
                   /\ qs[FindIndex(ps, p.id)] = p
                   /\ \A j \in 1..Len(ps) : j # FindIndex(ps, p.id) => qs[j] = ps[j]
              ELSE /\ Len(qs) = Len(ps) + 1
                   /\ \A j \in 1..Len(ps) : qs[j] = ps[j]
                   /\ IF StrFalsy(p, "id") THEN IsWithId(qs[Len(qs)], p)
                      ELSE qs[Len(qs)] = p ]_vars

\* upsertProject has replaced the first of two entries where it was.
C13_Witness ==
  /\ out.op = "upsertProject" /\ out.result = "pending" /\ out.arg = eDupTag
  /\ IsArray(state.projects) /\ Len(Projects) = 2
  /\ Projects[1] = eDupTag /\ Projects[2].name = eNew.name

\* addProject stores its argument in this step.
AddStep == out'.op = "addProject" /\ out'.result = "pending"

\* C14: the entry addProject stores is the last of the collection, and its id is a
\* non-empty string that no other entry has.
C14_AddedIdUnique ==
  [][ AddStep =>
        LET qs == state'.projects.v
        IN /\ Len(qs) = Len(Projects) + 1
           /\ \A j \in 1..Len(Projects) : qs[j] = Projects[j]
           /\ "id" \in DOMAIN qs[Len(qs)] /\ qs[Len(qs)].id # ""
           /\ \A j \in 1..Len(Projects) : EntryId(qs[j]) # qs[Len(qs)].id ]_vars

\* deleteProject or recordProjectAccess is called in this step with an id no entry has.
AbsentIdCall ==
  /\ out'.op \in {"deleteProject", "recordProjectAccess"}
  /\ out'.arg # NoArg
  /\ IsArray(state.projects) => FindIndex(Projects, out'.arg.id) = 0

\* C15: deleteProject and recordProjectAccess with an id no entry has do not throw
\* and leave the state alone, and a document they write is the one already persisted.
C15_AbsentIdIsNoOp ==
  [][ AbsentIdCall =>
        /\ ~Rejected(out')
        /\ state' = state
        /\ \A i \in 1..Len(inflight') : StartsWrite(i) => inflight'[i].data = file ]_vars

\* clickCount || 0
ClickCount(e) == IF "clickCount" \in DOMAIN e THEN e.clickCount ELSE 0

\* The ids of the entries of a collection.
IdsOf(ps) == {EntryId(ps[i]) : i \in 1..Len(ps)}

\* C16: recordProjectAccess, upsertProject, toggleFavorite and reload never lower the
\* clickCount of an entry that stays in the catalog, and recordProjectAccess on an
\* existing id raises it by one.
C16_ClickCountMonotone ==
  [][ (/\ out'.op \in {"recordProjectAccess", "upsertProject", "toggleFavorite", "reload"}
       /\ IsArray(state.projects) /\ IsArray(state'.projects)) =>
        /\ \A id \in IdsOf(Projects) \cap IdsOf(state'.projects.v) :
             ClickCount(state'.projects.v[FindIndex(state'.projects.v, id)])
               >= ClickCount(Projects[FindIndex(Projects, id)])
        /\ (out'.op = "recordProjectAccess" /\ out'.result = "pending") =>
             ClickCount(state'.projects.v[FindIndex(state'.projects.v, out'.arg.id)])
               = ClickCount(Projects[FindIndex(Projects, out'.arg.id)]) + 1 ]_vars

\* The n newest files of a directory listed oldest first.
Newest(bs, n) ==
  IF Len(bs) > n THEN [i \in 1..n |-> bs[Len(bs) - n + i]] ELSE bs

\* The command createBackup runs in this step.
BackupStep == out'.op = "createBackup"

\* C17 as stated: a createBackup() that succeeds leaves the newest five files, its
\* own included, and after any createBackup() the directory holds at most five files.
C17_AtMostFiveNewest ==
  [][ BackupStep =>
        /\ Len(backups') <= RetainBackups
        /\ out'.result = "ok" =>
             backups' = Newest(Append(backups, ExportDoc(state)), RetainBackups) ]_vars

\* C17 amended: a createBackup() that writes its file and prunes without error leaves
\* the newest five files, its own included (exactly five when there were four or
\* more); one whose pruning fails leaves its own file, the five newest and a part of
\* the older ones, so more than five can remain; one that cannot write leaves the
\* directory as it was.
C17_FiveNewestWhenPruned ==
  [][ BackupStep =>
        /\ out'.result \in {"ok", "pruneFailed", "backupFailed"}
        /\ out'.result = "ok" =>
             /\ backups' = Newest(Append(backups, ExportDoc(state)), RetainBackups)
             /\ Len(backups') <= RetainBackups
             /\ Len(backups) >= RetainBackups - 1 => Len(backups') = RetainBackups
        /\ out'.result = "pruneFailed" =>
             /\ Len(backups') <= Len(backups) + 1
             /\ Newest(backups', RetainBackups)
                  = Newest(Append(backups, ExportDoc(state)), RetainBackups)
        /\ out'.result = "backupFailed" => backups' = backups ]_vars

\* A createBackup() in a full directory has written its file and deleted the oldest.
C17_Witness ==
  /\ out.op = "createBackup" /\ out.result = "ok"
  /\ Len(backups) = RetainBackups
  /\ backups[RetainBackups] = ExportDoc(state)
  /\ backups[1] # OldBackup(1)

\* C18: no failure inside createBackup() leaves it: the command resolves, and an
\* import whose backup step fails goes on to replace the state and to write it.
C18_BackupFailureSwallowed ==
  [][ /\ BackupStep =>
           (~Rejected(out') /\ state' = state /\ file' = file /\ inflight' = inflight)
      /\ (out'.op = "importFromFile" /\ out'.result \in {"backupFailed", "pruneFailed"}) =>
           /\ \E i \in 1..Len(inflight) :
                ImportStep(i, "backup", "replace") /\ inflight'[i].arg = inflight[i].arg
           /\ state' = state /\ file' = file
      /\ \A i \in 1..Len(inflight) :
           /\ ImportStep(i, "replace", "write") =>
                (state' = ImportedState(inflight[i].arg)
                 /\ inflight'[i].data = Stringify(state'))
           /\ (Ends(i) /\ inflight[i].op = "importFromFile") =>
                /\ inflight[i].pc = "write"
                /\ out'.result = "ok" => file' = inflight[i].data ]_vars

\* An import whose backup could not be written has replaced the state and written it.
C18_Witness ==
  /\ out.op = "importFromFile" /\ out.result = "ok" /\ out.notify = 1
  /\ backups = << >>
  /\ DOMAIN state = {"projects"} /\ file = Stringify(state)

\* init() runs in this step.
InitStep == phase = "constructed" /\ phase' = "ready"

\* The fields of a document that parses, none when it is not an object.
Fields(doc) == IF doc.k = "object" THEN doc.f ELSE << >>

\* projects: [] and the default uiSettings filled into fields that lack them.
Filled(f) ==
  Merge([projects |-> Arr(<< >>), uiSettings |-> DefaultUISettings],
        [key \in {k \in DOMAIN f : k # "projects" \/ IsTruthy(f[k])} |-> f[key]])

\* C19 as stated: init() on a file that is missing or does not parse sets the default
\* state and writes it; on a file that parses it keeps the fields of the file, fills
\* in projects and uiSettings, and does not write.
C19_InitDefaultsOrLoads ==
  [][ InitStep =>
        IF file.k \in {"missing", "bad"}
        THEN state' = DefaultState /\ file' = Stringify(DefaultState)
        ELSE state' = Filled(Fields(file)) /\ file' = file ]_vars

\* C19 amended: init() on a file that is missing, does not parse or holds the JSON
\* value null sets the default state (the one entry welcome-demo, default uiSettings)
\* and writes it; on a file that holds a JSON object it keeps the fields of the file,
\* fills in projects: [] and the default uiSettings when they are falsy, and does not
\* write.
C19_InitDefaultsOrLoadsObject ==
  [][ InitStep =>
        IF file.k \in {"missing", "bad", "null"}
        THEN /\ state' = DefaultState /\ file' = Stringify(DefaultState)
             /\ Len(state'.projects.v) = 1 /\ state'.projects.v[1].id = "welcome-demo"
        ELSE /\ file.k = "object"
             /\ state' = Filled(file.f) /\ file' = file ]_vars

\* init() has found no usable file, set the default state and written it.
C19_Witness ==
  /\ out.op = "init" /\ phase = "ready"
  /\ state = DefaultState /\ file = Stringify(DefaultState)

\* The fields an imported entry must have, with the values the validation admits.
WellFormed(e) ==
  /\ IsObject(e)
  /\ {"name", "path", "type", "id", "color", "tags", "description", "icon"} \subseteq DOMAIN e
  /\ e.name \notin {"", NotAString} /\ e.path \notin {"", NotAString}
  /\ e.type \in RecognizedTypes

\* The candidates of a document hold an element whose type is not recognized.
HasBadType(doc) ==
  \E k \in 1..Len(ImportCandidates(doc)) :
    LET e == ImportCandidates(doc)[k]
    IN IsObject(e) /\ ("type" \notin DOMAIN e \/ e.type \notin RecognizedTypes)

\* C20: the entries an import puts into the state all have a non-empty name and path,
\* a recognized type and an id, color, tags, description and icon; a document with an
\* element of another type is rejected.
C20_ImportedEntriesWellFormed ==
  [][ /\ \A i \in 1..Len(inflight) :
           ImportStep(i, "replace", "write") =>
             \A k \in 1..Len(state'.projects.v) : WellFormed(state'.projects.v[k])
      /\ (out'.op = "importFromFile" /\ out'.arg # NoArg /\ HasBadType(out'.arg)) =>
           (Rejected(out') /\ inflight' = inflight /\ state' = state) ]_vars

\* An import has put an entry into the state that came without id, color, tags,
\* description and icon.
C20_Witness ==
  \E i \in 1..Len(inflight) :
    /\ inflight[i].op = "importFromFile" /\ inflight[i].pc = "write"
    /\ state = ImportedState(inflight[i].arg)
    /\ \E k \in 1..Len(Projects) :
         Projects[k].name = eNew.name /\ WellFormed(Projects[k])

----------------------------------------------------------------------------
(* The views *)

\* What the outline and the manager webview hold when both were handed the state s.
ViewsOf(s) == [outline |-> s.projects, manager |-> s]

\* C21: a store method that changed the state and whose write succeeded, and a reload
\* or watcher reconciliation that replaced the state, invoke the change callback once,
\* and the callback hands the outline and the manager webview the state the store holds
\* when the handler finishes; a step that changes the state without handing it to the
\* views leaves a handler awaiting the write that will.
C21_ViewsFollowState ==
  [][ /\ \A i \in 1..Len(inflight) :
           (Ends(i) /\ inflight[i].pc = "write" /\ out'.result = "ok") =>
             (out'.notify = 1 /\ out'.posted = ViewsOf(state'))
      /\ \A i \in 1..Len(inflight) :
           (Ends(i) /\ inflight[i].op \in {"reload", "watch"} /\ state' # state) =>
             (out'.notify = 1 /\ out'.posted = ViewsOf(state'))
      /\ (phase = "ready" /\ state' # state) =>
           \/ out'.posted = ViewsOf(state')
           \/ \E i \in 1..Len(inflight') :
                inflight'[i].pc = "write" /\ inflight'[i].data = Stringify(state') ]_vars

\* The watcher has installed a hand-edited file and the views were handed it.
C21_Witness ==
  /\ out.op = "watch" /\ out.notify = 1
  /\ state.projects = Arr(<<eDupTag>>)
  /\ out.posted = ViewsOf(state)

----------------------------------------------------------------------------
(* What the methods leave alone *)

\* The methods that are not deleteProject and do not replace the whole collection.
FrameOps ==
  {"addProject", "upsertProject", "recordProjectAccess", "toggleFavorite",
   "updateUISettings"}

\* The entry e without the fields ks.
Without(e, ks) == [k \in DOMAIN e \ ks |-> e[k]]

\* The index of the entry a call addresses, 0 when it addresses none: the first entry
\* with the id of the call; none for addProject, updateUISettings and a payload of
\* upsertProject that gets a generated id.
Addressed(ps, o) ==
  IF o.op \in {"recordProjectAccess", "toggleFavorite"} THEN FindIndex(ps, o.arg.id)
  ELSE IF o.op = "upsertProject" /\ ~StrFalsy(o.arg, "id") THEN FindIndex(ps, o.arg.id)
  ELSE 0

\* The fields a call may change in the entry it addresses.
OwnFields(o) ==
  CASE o.op = "recordProjectAccess" -> {"clickCount", "lastAccessed"}
    [] o.op = "toggleFavorite" -> {"isFavorite", "tags"}
    [] o.op = "upsertProject" ->
         {"name", "path", "description", "type", "color", "tags", "group", "icon",
          "isFavorite", "clickCount", "lastAccessed"}
    [] OTHER -> {}

\* C22 as stated: addProject, upsertProject of another id, recordProjectAccess,
\* toggleFavorite and updateUISettings keep every existing entry, in the same order
\* and with unchanged fields (an upsertProject may replace the entry of its own id).
C22_EveryEntryUnchanged ==
  [][ (out'.op \in FrameOps /\ IsArray(state.projects)) =>
        /\ IsArray(state'.projects)
        /\ Len(state'.projects.v) >= Len(Projects)
        /\ \A k \in 1..Len(Projects) :
             \/ state'.projects.v[k] = Projects[k]
             \/ out'.op = "upsertProject" /\ out'.arg # NoArg
                  /\ k = Addressed(Projects, out') ]_vars

\* C22 amended: addProject, upsertProject, recordProjectAccess, toggleFavorite and
\* updateUISettings remove no entry and move none: every entry stays at its index
\* with its id, every entry other than the one the call addresses keeps all its
\* fields, and the addressed entry changes only in clickCount and lastAccessed
\* (recordProjectAccess), in isFavorite and tags (toggleFavorite) or in the fields
\* of the payload (upsertProject); addProject appends one entry, updateUISettings
\* leaves the collection as it is.
C22_OthersUnchanged ==
  [][ (out'.op \in FrameOps /\ IsArray(state.projects)) =>
        /\ IsArray(state'.projects)
        /\ Len(state'.projects.v) >= Len(Projects)
        /\ \A k \in 1..Len(Projects) :
             IF out'.arg # NoArg /\ k = Addressed(Projects, out')
             THEN Without(state'.projects.v[k], OwnFields(out'))
                    = Without(Projects[k], OwnFields(out'))
             ELSE state'.projects.v[k] = Projects[k]
        /\ out'.op = "addProject" => Len(state'.projects.v) <= Len(Projects) + 1
        /\ out'.op \in {"recordProjectAccess", "toggleFavorite", "updateUISettings"} =>
             Len(state'.projects.v) = Len(Projects) ]_vars

\* recordProjectAccess has counted an access of one of two entries.
C22_Witness ==
  /\ out.op = "recordProjectAccess" /\ out.result = "pending"
  /\ Len(Projects) >= 2
  /\ \E k \in 1..Len(Projects) : "clickCount" \in DOMAIN Projects[k]
  /\ \E k \in 1..Len(Projects) : "clickCount" \notin DOMAIN Projects[k]

----------------------------------------------------------------------------
(* Import of documents of every shape *)

\* A folder of a VS Code workspace file.
fW == [name |-> "W", path |-> "/w"]

\* Files of every shape the shape detection tells apart: several of them match more
\* than one rule.
ShapeDocs ==
  { ObjectDoc([projects |-> Arr(<<eA>>), folders |-> Arr(<<fW>>), items |-> Arr(<<eNew>>)]),
    ArrayDoc(<<eNew>>),
    ObjectDoc([projects |-> JNum, folders |-> Arr(<<fW>>), items |-> Arr(<<eNew>>)]),
    ObjectDoc([projects |-> JNull, items |-> Arr(<<eA>>), archived |-> Arr(<<eNew>>)]),
    ObjectDoc([folders |-> JNum, archived |-> Arr(<<eNoPath>>)]),
    ObjectDoc([version |-> JNum]),
    ScalarDoc,
    NullDoc }

ImportNext ==
  \/ StoreInit
  \/ \E doc \in ShapeDocs : ImportStart(doc)
  \/ \E i \in 1..Len(inflight) : ImportBackup(i)
  \/ \E i \in 1..Len(inflight) : ImportReplace(i)
  \/ \E i \in 1..Len(inflight) : WriteDone(i)
  \/ \E i \in 1..Len(inflight) : WriteFail(i)

ImportSpec == Init /\ [][ImportNext]_vars

\* The document is an object whose field key holds an array.
ArrayField(doc, key) == doc.k = "object" /\ key \in DOMAIN doc.f /\ IsArray(doc.f[key])

\* The rule that selects the candidates, 5 when none does.
RuleOf(doc) ==
  IF ArrayField(doc, "projects") THEN 1
  ELSE IF doc.k = "array" THEN 2
  ELSE IF ArrayField(doc, "folders") THEN 3
  ELSE IF \E i \in 1..Len(KeyOrder) : ArrayField(doc, KeyOrder[i]) THEN 4
  ELSE 5

\* The candidates the rule selects.
SelectedBy(doc) ==
  CASE RuleOf(doc) = 1 -> doc.f.projects.v
    [] RuleOf(doc) = 2 -> doc.items
    [] RuleOf(doc) = 3 -> [i \in 1..Len(doc.f.folders.v) |->
                             [FolderEntry(doc.f.folders.v[i]) EXCEPT !.type = "workspace"]]
    [] RuleOf(doc) = 4 ->
         LET i == CHOOSE i \in 1..Len(KeyOrder) :
                    /\ ArrayField(doc, KeyOrder[i])
                    /\ \A j \in 1..(i - 1) : ~ArrayField(doc, KeyOrder[j])
         IN doc.f[KeyOrder[i]].v
    [] OTHER -> << >>

\* C23: importFromFile takes its candidates from the first rule that matches, in the
\* order projects field, array document, folders field (each folder an entry of type
\* workspace), first array-valued field in key order, and rejects the document when
\* none matches: an accepted import carries the normalized candidates of that rule,
\* a rejected one names the first invalid element of that rule's candidates.
C23_FirstMatchingRule ==
  [][ (out'.op = "importFromFile" /\ out'.arg # NoArg) =>
        LET doc == out'.arg
            c == SelectedBy(doc)
        IN IF RuleOf(doc) = 5
           THEN Rejected(out') /\ out'.idx = -1 /\ inflight' = inflight /\ state' = state
           ELSE IF Rejected(out')
           THEN /\ out'.idx >= 0 /\ out'.idx = FirstInvalid(c)
                /\ inflight' = inflight /\ state' = state
           ELSE /\ inflight' = Append(inflight, inflight'[Len(inflight')])
                /\ inflight'[Len(inflight')].arg = NormalizeAll(c, gen)
                /\ RuleOf(doc) = 3 =>
                     \A k \in 1..Len(inflight'[Len(inflight')].arg) :
                       inflight'[Len(inflight')].arg[k].type = "workspace" ]_vars

\* A document with a projects number, a folders array and an items array has been
\* imported: the state holds the folder as a workspace entry.
C23_Witness ==
  /\ out.op = "importFromFile"
  /\ \E i \in 1..Len(inflight) : inflight[i].op = "importFromFile" /\ inflight[i].pc = "write"
  /\ IsArray(state.projects) /\ Len(Projects) = 1
  /\ Projects[1].name = fW.name /\ Projects[1].type = "workspace"

----------------------------------------------------------------------------
(* The watcher and the store's own writes *)

\* C24: a delete of projects.json changes neither the state nor the views and raises
\* no event for the watcher's handler, while every creation and every modification
\* of the file by another program raises one, upon which the handler reads the file.
C24_CreateAndModifyReread ==
  [][ /\ out'.op = "externalDelete" =>
           (state' = state /\ out'.notify = 0 /\ watchEvents' = watchEvents
            /\ inflight' = inflight)
      /\ out'.op = "externalEdit" => watchEvents' = 1 ]_vars

\* The store with no other writer of projects.json and no failing write: every change
\* event the watcher meets follows a save() of the store.
OwnWritesNext ==
  \/ StoreInit
  \/ \E p \in AddPayloads : AddProject(p)
  \/ \E id \in RequestIds : RecordProjectAccess(id)
  \/ \E i \in 1..Len(inflight) : WriteDone(i)
  \/ WatchStart
  \/ \E i \in 1..Len(inflight) : WatchDone(i)

OwnWritesSpec == Init /\ [][OwnWritesNext]_vars

\* C25: the watcher's handler, run upon the store's own save, writes nothing and raises
\* no further event, and leaves state.projects and state.uiSettings as they were.
C25_SelfReloadChangesNothing ==
  [][ out'.op = "watch" =>
        /\ file' = file /\ watchEvents' <= watchEvents
        /\ state'.projects = state.projects
        /\ UISettingsOf(state') = UISettingsOf(state) ]_vars

\* Every request has been served: no handler awaits, no change event is pending.
Quiescent == phase = "ready" /\ inflight = << >> /\ watchEvents = 0

\* The accesses counted for the entry "a", when the catalog holds it.
CountedFor(ps, id) == IF FindIndex(ps, id) = 0 THEN 0 ELSE ClickCount(ps[FindIndex(ps, id)])

\* C26: in a run that started from a file holding the one entry "a", in which every
\* request was an addProject or a recordProjectAccess("a") and every write succeeded,
\* once nothing is pending the state equals the content of the file and holds one
\* added entry per addProject and one counted access per recordProjectAccess.
C26_NoLostUpdate ==
  (Quiescent /\ ops >= 1 /\ IsArray(state.projects) /\ "a" \in IdsOf(Projects)) =>
    /\ file = Stringify(state)
    /\ (Len(Projects) - 1) + CountedFor(Projects, "a") = ops

----------------------------------------------------------------------------
(* The shape of the state *)

\* C27: state.projects is an array in every reachable state, whatever projects.json
\* holds when init(), reload() or the watcher reads it.
C27_ProjectsIsList == IsArray(state.projects)

----------------------------------------------------------------------------
(* A write that fails *)

\* The step before this one applied the change of the one handler in flight, a call
\* of op, which now ends with the error of its write.
FailsRightAfterApply(op) ==
  /\ Len(inflight) = 1 /\ inflight[1].op = op /\ inflight[1].pc = "write"
  /\ out.op = op /\ out.result = "pending" /\ out.arg # NoArg
  /\ out'.op = op /\ out'.result = "writeError"

\* C28: a mutation method whose write fails ends with the error, does not invoke the
\* callback and leaves the state as it was before the call: the entry addProject
\* pushed is gone again, the entry toggleFavorite changed is as it found it.
C28_FailedWriteRestoresState ==
  [][ /\ \A i \in 1..Len(inflight) :
           (Ends(i) /\ inflight[i].pc = "write" /\ out'.result # "ok") =>
             (out'.result = "writeError" /\ out'.op = inflight[i].op /\ out'.notify = 0)
      /\ FailsRightAfterApply("addProject") =>
           state'.projects.v = SubSeq(Projects, 1, Len(Projects) - 1)
      /\ FailsRightAfterApply("toggleFavorite") =>
           state'.projects.v[FindIndex(Projects, out.arg.id)] = out.was ]_vars

----------------------------------------------------------------------------
(* What an import leaves alone *)

\* C29: an import that replaces the collection leaves the settings of the interface
\* (compactMode, viewMode, selectedGroup) as they were, in the state and in the text
\* it writes to projects.json.
C29_ImportKeepsUISettings ==
  [][ \A i \in 1..Len(inflight) :
        ImportStep(i, "replace", "write") =>
          /\ UISettingsOf(state') = UISettingsOf(state)
          /\ UISettingsOf(inflight'[i].data.f) = UISettingsOf(state) ]_vars

----------------------------------------------------------------------------
(* A hand-edited catalog: entries without an id *)

eNoId1 == [name |-> "X", path |-> "/x", type |-> "local"]
eNoId2 == [name |-> "Y", path |-> "/y", type |-> "local"]

\* projects.json as a user can have written it: entries that lack an id.
HandEditedFiles ==
  { ObjectDoc([projects |-> Arr(<<eNoId1, eA, eNoId2>>)]),
    ObjectDoc([projects |-> Arr(<<eA, eNoId1>>)]) }

\* The id of a request of the view: the id of the entry shown, undefined when the
\* entry has none.
ViewRequestIds == RequestIds \cup {NoId}

HandEditedInitial ==
  /\ phase = "constructed"
  /\ state = [projects |-> Arr(<< >>)]
  /\ file \in HandEditedFiles
  /\ backups = << >>
  /\ exported = NoDoc
  /\ inflight = << >>
  /\ watchEvents = 0
  /\ ops = 0
  /\ gen = 0
  /\ out = Out("new", "constructor", "ok", 0, -1)

HandEditedNext ==
  \/ StoreInit
  \/ \E id \in ViewRequestIds : DeleteProject(id)
  \/ \E id \in ViewRequestIds : ToggleFavorite(id)
  \/ \E i \in 1..Len(inflight) : WriteDone(i)
  \/ \E i \in 1..Len(inflight) : WriteFail(i)
  \/ WatchStart
  \/ \E i \in 1..Len(inflight) : WatchDone(i)

HandEditedSpec == HandEditedInitial /\ [][HandEditedNext]_vars

\* C30: deleteProject(id) removes at most one entry, and every entry whose id is not
\* the requested one stays, in its place among the others; an absent id is the id of
\* the entries that have none.
C30_DeleteRemovesAtMostOne ==
  [][ (out'.op = "deleteProject" /\ out'.result = "pending" /\ out'.arg # NoArg) =>
        /\ Len(Projects) - Len(state'.projects.v) <= 1
        /\ SelectSeq(state'.projects.v, LAMBDA e : EntryId(e) # out'.arg.id)
             = SelectSeq(Projects, LAMBDA e : EntryId(e) # out'.arg.id) ]_vars

====
